---- MODULE Spec2Model ----
(***************************************************************************)
(* Fieldscope: the graph builder (buildGraph), the node drag handlers of   *)
(* renderSankey, and the page around them (data load, column controls,     *)
(* renderAll and the debounced resize), src/src/main.js.                   *)
(*                                                                         *)
(* Strings are sequences of one-character strings, so that trimming,       *)
(* concatenation with the "|||" separator and String.prototype.split are   *)
(* computed the way the code computes them.                                *)
(***************************************************************************)
EXTENDS Integers, Sequences, FiniteSets, TLC

VARIABLES
    sourceCol,   \* config.sourceCol handed to buildGraph
    targetCol,   \* config.targetCol handed to buildGraph
    rows,        \* the rows rows.forEach has visited so far, in order
    sources,     \* Map value -> node, insertion ordered
    targets,     \* Map value -> node, insertion ordered
    byLinkKey,   \* Map "s|||t" -> { count, refIds }, insertion ordered
    graph,       \* { nodes, links } returned by buildGraph
    bpc,         \* "loop" while rows.forEach runs, "done" after the return
    height,      \* containerEl.clientHeight || 480 of the rendered chart
    nodes,       \* the laid-out graph.nodes: id -> [side, y0, y1]
    elPeers,     \* this.__peers of each node's element ([] while unset)
    elHeights,   \* this.__heights of each node's element (empty while unset)
    elInsertIdx, \* this.__insertIdx of each node's element (Undefined while unset)
    dragging,    \* the node of the gesture in progress, 0 when there is none
    gest,        \* history: node, Start layout and last Move of the latest gesture
    gMoves,      \* history: the pointer values of the gesture's Moves (logged runs)
    log,         \* history: completed gestures (logged runs)
    state,       \* state.rows, state.sourceCol, state.targetCol, state.showRefNums
    d3g,         \* whether window.d3 was there when the module was loaded
    chart,       \* what els.chart holds
    thrown,      \* the exception the latest handler ended with, "none" if it returned
    timers,      \* the pending timeouts: [id, remaining milliseconds]
    resizeHandle,\* window.__bioVizResize, 0 while undefined
    quiet,       \* history: milliseconds since the latest resize signal, capped
    fires,       \* history: renderAll calls by the timer since the latest signal
    burst,       \* history: resize signals since the latest quiet period, capped
    stale,       \* the gesture in progress holds a chart a rebuild has replaced
    pending,     \* the chart els.chart holds while the gesture holds an older one
    boot         \* tryLoadBuiltin: "fetching" until it has returned, then "done"

buildVars == <<sourceCol, targetCol, rows, sources, targets, byLinkKey, graph, bpc>>

dragVars == <<height, nodes, elPeers, elHeights, elInsertIdx, dragging, gest, gMoves, log>>

appVars == <<state, d3g, chart, thrown, timers, resizeHandle, quiet, fires, burst, stale, pending, boot>>

vars == <<sourceCol, targetCol, rows, sources, targets, byLinkKey, graph, bpc,
          height, nodes, elPeers, elHeights, elInsertIdx, dragging, gest, gMoves, log,
          state, d3g, chart, thrown, timers, resizeHandle, quiet, fires, burst, stale, pending, boot>>

----------------------------------------------------------------------------
(* Bounds and input sets *)

MaxRows == 3

Null == [kind |-> "null", s |-> <<>>, n |-> 0]
Str(s) == [kind |-> "str", s |-> s, n |-> 0]
Num(n) == [kind |-> "num", s |-> <<>>, n |-> n]

Blank == Str(<<" ">>)
TxtA == Str(<<"a">>)
PadA == Str(<<" ", "a", " ">>)
Seven == Num(7)
SepA == Str(<<"a", "|", "|", "|", "a">>)

Row(a, b) == [A |-> a, B |-> b]

\* The rows a sheet can hold here: a missing or blank cell on either side,
\* plain and padded text, a number, and text that contains the key separator.
RowSet ==
    { Row(Null, TxtA),  Row(TxtA, Blank),  Row(Blank, Null),
      Row(TxtA, TxtA),  Row(PadA, TxtA),   Row(TxtA, Seven),
      Row(Seven, TxtA), Row(Seven, Seven),
      Row(SepA, TxtA),  Row(TxtA, SepA) }

\* Column selections: two different columns, the same column twice, and a
\* column no row has.
ColPairs == { <<"A", "B">>, <<"A", "A">>, <<"A", "C">> }

----------------------------------------------------------------------------
(* Strings *)

Whitespace == {" "}

Digits == <<"0", "1", "2", "3", "4", "5", "6", "7", "8", "9">>

RECURSIVE NumToStr(_)
NumToStr(n) ==
    IF n < 10 THEN <<Digits[n + 1]>>
    ELSE NumToStr(n \div 10) \o <<Digits[(n % 10) + 1]>>

\* String(v) for a non-null cell
String(v) == IF v.kind = "num" THEN NumToStr(v.n) ELSE v.s

RECURSIVE TrimStart(_)
TrimStart(s) ==
    IF s # <<>> /\ Head(s) \in Whitespace THEN TrimStart(Tail(s)) ELSE s

RECURSIVE TrimEnd(_)
TrimEnd(s) ==
    IF s # <<>> /\ s[Len(s)] \in Whitespace
    THEN TrimEnd(SubSeq(s, 1, Len(s) - 1))
    ELSE s

Trim(s) == TrimEnd(TrimStart(s))

safeStrNoTrim(v) == IF v.kind = "null" THEN <<>> ELSE String(v)

safeStr(v) == IF v.kind = "null" THEN <<>> ELSE Trim(String(v))

\* row[col]: undefined when the row has no such column
Field(row, col) == IF col \in DOMAIN row THEN row[col] ELSE Null

getVal(row, col) == safeStr(Field(row, col))

Sep == <<"|", "|", "|">>

\* `${s}|||${t}`
LinkKey(s, t) == s \o Sep \o t

StartsWith(s, p) == Len(s) >= Len(p) /\ SubSeq(s, 1, Len(p)) = p

\* key.split("|||"): cut at every leftmost occurrence of the separator
RECURSIVE SplitFrom(_, _)
SplitFrom(cur, rest) ==
    IF rest = <<>> THEN <<cur>>
    ELSE IF StartsWith(rest, Sep)
         THEN <<cur>> \o SplitFrom(<<>>, SubSeq(rest, Len(Sep) + 1, Len(rest)))
         ELSE SplitFrom(Append(cur, Head(rest)), Tail(rest))

Split(key) == SplitFrom(<<>>, key)

SourceIdAsTarget(s) == <<"T", ":">> \o s

\* `S:${s}`
SourceId(s) == <<"S", ":">> \o s

\* `T:${t}`
TargetId(t) == <<"T", ":">> \o t

----------------------------------------------------------------------------
(* JavaScript Map: insertion-ordered sequence of [key, val] entries *)

MapHas(m, k) == \E i \in 1..Len(m) : m[i].key = k

MapIndex(m, k) == CHOOSE i \in 1..Len(m) : m[i].key = k

MapGet(m, k) == m[MapIndex(m, k)].val

\* set: a new key is appended, an existing key keeps its position
MapSet(m, k, v) ==
    IF MapHas(m, k)
    THEN [m EXCEPT ![MapIndex(m, k)] = [key |-> k, val |-> v]]
    ELSE Append(m, [key |-> k, val |-> v])

MapValues(m) == [i \in 1..Len(m) |-> m[i].val]

Range(f) == { f[i] : i \in DOMAIN f }

----------------------------------------------------------------------------
(* buildGraph *)

EmptyGraph == [nodes |-> <<>>, links |-> <<>>]

BuildInit ==
    /\ \E cp \in ColPairs : sourceCol = cp[1] /\ targetCol = cp[2]
    /\ rows = <<>>
    /\ sources = <<>>
    /\ targets = <<>>
    /\ byLinkKey = <<>>
    /\ graph = EmptyGraph
    /\ bpc = "loop"

SourceNode(s) == [id |-> SourceId(s), name |-> s, side |-> "left"]

TargetNode(t) == [id |-> TargetId(t), name |-> t, side |-> "right"]

\* if (!sources.has(s)) sources.set(s, {...})
AddSource(m, s) == IF MapHas(m, s) THEN m ELSE MapSet(m, s, SourceNode(s))

AddTarget(m, t) == IF MapHas(m, t) THEN m ELSE MapSet(m, t, TargetNode(t))

RecordRefZeroBased(m, key, idx) ==
    LET entry == IF MapHas(m, key) THEN MapGet(m, key)
                 ELSE [count |-> 0, refIds |-> <<>>]
    IN  MapSet(m, key, [count |-> entry.count + 1,
                        refIds |-> Append(entry.refIds, idx)])

\* entry = byLinkKey.get(key) || {count: 0, refIds: []}; count += 1;
\* refIds.push(idx + 1); byLinkKey.set(key, entry)    (idx is 0-based)
RecordRef(m, key, idx) ==
    LET entry == IF MapHas(m, key) THEN MapGet(m, key)
                 ELSE [count |-> 0, refIds |-> <<>>]
    IN  MapSet(m, key, [count |-> entry.count + 1,
                        refIds |-> Append(entry.refIds, idx + 1)])

\* One iteration of rows.forEach((row, idx) => ...), idx = Len(rows)
BuildRow(row) ==
    /\ bpc = "loop"
    /\ Len(rows) < MaxRows
    /\ LET idx == Len(rows)
           s == getVal(row, sourceCol)
           t == getVal(row, targetCol)
       IN  /\ rows' = Append(rows, row)
           /\ IF s = <<>> \/ t = <<>>
              THEN UNCHANGED <<sources, targets, byLinkKey>>
              ELSE /\ sources' = AddSource(sources, s)
                   /\ targets' = AddTarget(targets, t)
                   /\ byLinkKey' = RecordRef(byLinkKey, LinkKey(s, t), idx)
    /\ UNCHANGED <<sourceCol, targetCol, graph, bpc>>
    /\ UNCHANGED dragVars
    /\ UNCHANGED appVars

NodeSeqTargetsFirst(src, tgt) == MapValues(tgt) \o MapValues(src)

\* nodes = [...sources.values(), ...targets.values()]
NodeSeq(src, tgt) == MapValues(src) \o MapValues(tgt)

\* for (const [key, {count}] of byLinkKey.entries()) { [s, t] = key.split("|||"); ... }
LinkOf(e) ==
    LET parts == Split(e.key)
    IN  [source |-> SourceId(parts[1]),
         target |-> TargetId(parts[2]),
         value  |-> e.val.count]

LinkSeq(m) == [i \in 1..Len(m) |-> LinkOf(m[i])]

\* The loop is over; build the node and link arrays and return.
BuildFinish ==
    /\ bpc = "loop"
    /\ graph' = [nodes |-> NodeSeq(sources, targets), links |-> LinkSeq(byLinkKey)]
    /\ bpc' = "done"
    /\ UNCHANGED <<sourceCol, targetCol, rows, sources, targets, byLinkKey>>
    /\ UNCHANGED dragVars
    /\ UNCHANGED appVars

BuildNext ==
    \/ \E row \in RowSet : BuildRow(row)
    \/ BuildFinish


----------------------------------------------------------------------------
(* renderSankey: the laid-out chart and the drag handlers *)

MaxMoves == 1

MaxGestures == 3

ColumnTop == 20

ColumnMargin == 20

NodePad == 14

MinNodeHeight == 8

Undefined == -1

\* event.y values of the pointer: above the column, inside it, below it
PointerYs == {0, 42, 50, 64, 300}

Max(a, b) == IF a >= b THEN a ELSE b

Min(a, b) == IF a <= b THEN a ELSE b

\* Layouts sankey(graph) hands over: the chart height, the left nodes' heights
\* top to bottom and the slack the layout spreads between them. A node of
\* graph.nodes is named by its position: the left nodes first, then one right
\* node that carries the whole flow. The first layout is three equal left
\* nodes filling an 89 pixel chart: (89 - 40 - 2 * 14) / 3 = 7 pixels each.
Layouts ==
    { [h |-> 89,  hts |-> <<7, 7, 7>>,  slack |-> 0],
      [h |-> 200, hts |-> <<8, 8, 20>>, slack |-> 0],
      [h |-> 200, hts |-> <<4, 20, 8>>, slack |-> 6],
      [h |-> 120, hts |-> <<30, 10>>,   slack |-> 3] }

RECURSIVE SumSeq(_)
SumSeq(q) == IF q = <<>> THEN 0 ELSE Head(q) + SumSeq(Tail(q))

RECURSIVE LaidOutY0(_, _)
LaidOutY0(l, i) ==
    IF i = 1 THEN ColumnTop + l.slack
    ELSE LaidOutY0(l, i - 1) + l.hts[i - 1] + NodePad + l.slack

\* sankey(graph): the nodes of a column stacked inside the extent, at least
\* nodePadding apart
LaidOut(l) ==
    [id \in 1..(Len(l.hts) + 1) |->
        IF id <= Len(l.hts)
        THEN [side |-> "left", y0 |-> LaidOutY0(l, id), y1 |-> LaidOutY0(l, id) + l.hts[id]]
        ELSE [side |-> "right", y0 |-> ColumnTop, y1 |-> ColumnTop + SumSeq(l.hts)]]

NodeIds == DOMAIN nodes

NoGesture == [node |-> 0, start |-> <<>>, moved |-> FALSE, center2 |-> 0, y |-> 0]

DragInit ==
    /\ \E l \in Layouts :
          /\ height = l.h
          /\ nodes = LaidOut(l)
    /\ elPeers = [id \in DOMAIN nodes |-> <<>>]
    /\ elHeights = [id \in DOMAIN nodes |-> <<>>]
    /\ elInsertIdx = [id \in DOMAIN nodes |-> Undefined]
    /\ dragging = 0
    /\ gest = NoGesture
    /\ gMoves = <<>>
    /\ log = {}

\* Math.max(8, n.y1 - n.y0)
FlooredHeight(n) == Max(MinNodeHeight, n.y1 - n.y0)

\* ids sorted by y0 ascending; Array.prototype.sort is stable, so ties keep
\* the graph.nodes order
SortByY0(ns, ids) ==
    LET before(a, b) == ns[a].y0 < ns[b].y0 \/ (ns[a].y0 = ns[b].y0 /\ a < b)
        rank(a) == 1 + Cardinality({ b \in ids : before(b, a) })
    IN  [k \in 1..Cardinality(ids) |-> CHOOSE a \in ids : rank(a) = k]

\* graph.nodes.filter(n => n.side === d.side && n.id !== d.id).sort(by y0)
PeersOf(ns, d) ==
    SortByY0(ns, { n \in NodeIds : ns[n].side = ns[d].side /\ n # d })

\* new Map(graph.nodes.map(n => [n.id, Math.max(8, n.y1 - n.y0)]))
HeightsOf(ns) == [n \in NodeIds |-> FlooredHeight(ns[n])]

\* drag "start"
DragStart(d) ==
    /\ dragging = 0
    /\ dragging' = d
    /\ elPeers' = [elPeers EXCEPT ![d] = PeersOf(nodes, d)]
    /\ elHeights' = [elHeights EXCEPT ![d] = HeightsOf(nodes)]
    /\ gest' = [node |-> d, start |-> nodes, moved |-> FALSE, center2 |-> 0, y |-> 0]
    /\ gMoves' = <<>>
    /\ UNCHANGED <<height, nodes, elInsertIdx, log>>
    /\ UNCHANGED buildVars
    /\ UNCHANGED appVars

\* heights.get(id) || Math.max(8, n.y1 - n.y0)
HeightFor(hts, ns, id) ==
    IF id \in DOMAIN hts /\ hts[id] # 0 THEN hts[id] ELSE FlooredHeight(ns[id])

ClampYBelowOnly(h, nodeHeight, y) == Min(h - ColumnMargin - nodeHeight, y)

\* Math.max(minY, Math.min(maxY, event.y))
ClampY(h, nodeHeight, y) ==
    Max(ColumnTop, Min(h - ColumnMargin - nodeHeight, y))

\* let insertIdx = 0;
\* while (insertIdx < centers.length && centers[insertIdx] < newCenter) insertIdx++
\* (centers are compared doubled, so that half pixels stay integers)
RECURSIVE InsertIdxFrom(_, _, _, _)
InsertIdxFrom(ns, peers, center2, i) ==
    IF i < Len(peers) /\ ns[peers[i + 1]].y0 + ns[peers[i + 1]].y1 < center2
    THEN InsertIdxFrom(ns, peers, center2, i + 1)
    ELSE i

\* the running y of a packing loop when it reaches position i of order
RECURSIVE PackedY(_, _, _, _)
PackedY(ns, order, hts, i) ==
    IF i = 1 THEN ColumnTop
    ELSE PackedY(ns, order, hts, i - 1) + HeightFor(hts, ns, order[i - 1]) + NodePad

PositionIn(order, id) == CHOOSE i \in 1..Len(order) : order[i] = id

PackNoPad(ns, order, hts, gapAt, gap) ==
    [id \in NodeIds |->
        IF id \in Range(order)
        THEN LET i == PositionIn(order, id)
                 y == PackedY(ns, order, hts, i) - (i - 1) * NodePad
                      + (IF gapAt < i THEN gap ELSE 0)
             IN  [ns[id] EXCEPT !.y0 = y, !.y1 = y + HeightFor(hts, ns, id)]
        ELSE ns[id]]

\* let y = 20; for each n of order: (at index gapAt: y += gap;)
\*   n.y0 = y; n.y1 = y + h; y += h + nodePad
\* gapAt is the 0-based index the gap is reserved before
Pack(ns, order, hts, gapAt, gap) ==
    [id \in NodeIds |->
        IF id \in Range(order)
        THEN LET i == PositionIn(order, id)
                 y == PackedY(ns, order, hts, i) + (IF gapAt < i THEN gap ELSE 0)
             IN  [ns[id] EXCEPT !.y0 = y, !.y1 = y + HeightFor(hts, ns, id)]
        ELSE ns[id]]

\* drag "drag" with event.y = y
DragMove(d, y, track) ==
    /\ dragging = d
    /\ track => Len(gMoves) < MaxMoves
    /\ LET nodeHeight == FlooredHeight(nodes[d])
           newY0 == ClampY(height, nodeHeight, y)
           center2 == 2 * newY0 + nodeHeight
           peers == elPeers[d]
           hts == elHeights[d]
           insertIdx == InsertIdxFrom(nodes, peers, center2, 0)
           packed == Pack(nodes, peers, hts, insertIdx, nodeHeight + NodePad)
       IN  /\ nodes' = [packed EXCEPT ![d].y0 = newY0, ![d].y1 = newY0 + nodeHeight]
           /\ elInsertIdx' = [elInsertIdx EXCEPT ![d] = insertIdx]
           /\ gest' = [gest EXCEPT !.moved = TRUE, !.center2 = center2, !.y = y]
    /\ gMoves' = IF track THEN Append(gMoves, y) ELSE gMoves
    /\ UNCHANGED <<height, elPeers, elHeights, dragging, log>>
    /\ UNCHANGED buildVars
    /\ UNCHANGED appVars

SpliceFirst(peers, insertIdx, d) == <<d>> \o peers

\* ordered = peers.slice(); ordered.splice(insertIdx, 0, d)
Splice(peers, insertIdx, d) ==
    LET at == Min(insertIdx, Len(peers))
    IN  SubSeq(peers, 1, at) \o <<d>> \o SubSeq(peers, at + 1, Len(peers))

\* this.__insertIdx ?? 0
EndInsertIdx(d) == IF elInsertIdx[d] = Undefined THEN 0 ELSE elInsertIdx[d]

\* drag "end"
DragEnd(d, track) ==
    /\ dragging = d
    /\ track => Cardinality(log) < MaxGestures
    /\ LET ordered == Splice(elPeers[d], EndInsertIdx(d), d)
           after == Pack(nodes, ordered, elHeights[d], Len(ordered), 0)
       IN  /\ nodes' = after
           /\ log' = IF track
                     THEN log \cup {[node |-> d, start |-> gest.start,
                                     moves |-> gMoves, end |-> after]}
                     ELSE log
    /\ dragging' = 0
    /\ UNCHANGED <<height, elPeers, elHeights, elInsertIdx, gest, gMoves>>
    /\ UNCHANGED buildVars
    /\ UNCHANGED appVars

DragNext ==
    \/ \E d \in NodeIds : DragStart(d)
    \/ \E d \in NodeIds, y \in PointerYs : DragMove(d, y, FALSE)
    \/ \E d \in NodeIds : DragEnd(d, FALSE)

\* a Start of a run that records its gestures, MaxGestures of them
LoggedStart(d) ==
    /\ Cardinality(log) < MaxGestures
    /\ DragStart(d)

DragLogNext ==
    \/ \E d \in NodeIds : LoggedStart(d)
    \/ \E d \in NodeIds, y \in PointerYs : DragMove(d, y, TRUE)
    \/ \E d \in NodeIds : DragEnd(d, TRUE)

----------------------------------------------------------------------------
(* main.js: the application state, renderAll and the listeners *)

DefaultHeight == 480

DebounceDelay == 120

\* containerEl.clientHeight, 0 while the container has no size
ClientHeights == {0, 120, 200}

\* the milliseconds that pass between two events
Elapses == {60, 120}

\* The first sheet of the workbook the page fetches: no rows, rows that all
\* miss a value, two sources of one target, and a value that contains the
\* key separator.
Sheets ==
    { <<>>,
      <<Row(Blank, TxtA), Row(TxtA, Blank)>>,
      <<Row(TxtA, TxtA), Row(Seven, TxtA)>>,
      <<Row(TxtA, SepA)>> }

\* null, or the value of a select without options
Unset == ""

InitialState ==
    [rows |-> <<>>, sourceCol |-> Unset, targetCol |-> Unset, showRefNums |-> TRUE]

NoChart == [height |-> 0, nodes |-> <<>>]

\* Object.keys(rows[0] || {}): a Row has the columns A and B, in this order
inferColumns(rs) == IF rs = <<>> THEN <<>> ELSE <<"A", "B">>

isArticleNumberColumn(name) == name \in {"id", "number", "index", "row"}

filterSelectableColumns(columns) ==
    SelectSeq(columns, LAMBDA c : ~isArticleNumberColumn(c))

\* no column name holds one of the keywords: [columns[0] || null, columns[1] || null]
chooseDefaultColumns(columns) ==
    << IF Len(columns) >= 1 THEN columns[1] ELSE Unset,
       IF Len(columns) >= 2 THEN columns[2] ELSE Unset >>

\* rows.forEach of buildGraph over the first n rows
RECURSIVE BuildMaps(_, _, _, _)
BuildMaps(rs, sc, tc, n) ==
    IF n = 0 THEN [sources |-> <<>>, targets |-> <<>>, byLinkKey |-> <<>>]
    ELSE LET m == BuildMaps(rs, sc, tc, n - 1)
             s == getVal(rs[n], sc)
             t == getVal(rs[n], tc)
         IN  IF s = <<>> \/ t = <<>> THEN m
             ELSE [sources   |-> AddSource(m.sources, s),
                   targets   |-> AddTarget(m.targets, t),
                   byLinkKey |-> RecordRef(m.byLinkKey, LinkKey(s, t), n - 1)]

\* buildGraph(rows, sourceCol, targetCol) up to its line 568
buildGraph(rs, sc, tc) ==
    LET m == BuildMaps(rs, sc, tc, Len(rs))
    IN  [sources   |-> m.sources,
         targets   |-> m.targets,
         byLinkKey |-> m.byLinkKey,
         graph     |-> [nodes |-> NodeSeq(m.sources, m.targets),
                        links |-> LinkSeq(m.byLinkKey)]]

\* sankey(graph) finds the node of every link end; it throws when one is missing
LinksResolve(g) ==
    \A i \in 1..Len(g.links) :
        /\ \E k \in 1..Len(g.nodes) : g.nodes[k].id = g.links[i].source
        /\ \E k \in 1..Len(g.nodes) : g.nodes[k].id = g.links[i].target

\* the flow through node k: the larger of its outgoing and its incoming sum
NodeValue(g, k) ==
    LET id == g.nodes[k].id
        out == SumSeq([i \in 1..Len(g.links) |->
                          IF g.links[i].source = id THEN g.links[i].value ELSE 0])
        in  == SumSeq([i \in 1..Len(g.links) |->
                          IF g.links[i].target = id THEN g.links[i].value ELSE 0])
    IN  Max(out, in)

\* the positions in graph.nodes of one side's nodes, in graph.nodes order
ColumnSeq(g, side) ==
    SelectSeq([k \in 1..Len(g.nodes) |-> k], LAMBDA k : g.nodes[k].side = side)

\* extent [[20, 20], [width - 20, height - 20]] less the padding of n nodes
ColumnSpace(h, n) == h - ColumnTop - ColumnMargin - NodePad * (n - 1)

ColumnTotal(g, col) == SumSeq([i \in 1..Len(col) |-> NodeValue(g, col[i])])

\* sankey(graph) with nodePadding 14: every node as tall as its flow, at the
\* scale of the fuller column; the nodes of a column in graph.nodes order,
\* the room left over spread evenly above and between them
Sankey(g, h) ==
    LET left == ColumnSeq(g, "left")
        right == ColumnSeq(g, "right")
        sl == ColumnSpace(h, Len(left))
        sr == ColumnSpace(h, Len(right))
        tl == ColumnTotal(g, left)
        tr == ColumnTotal(g, right)
        num == IF sl * tr <= sr * tl THEN sl ELSE sr
        den == IF sl * tr <= sr * tl THEN tl ELSE tr
        hts(col) == [i \in 1..Len(col) |-> (NodeValue(g, col[i]) * num) \div den]
        lay(col) == [h |-> h, hts |-> hts(col),
                     slack |-> (ColumnSpace(h, Len(col)) - SumSeq(hts(col)))
                                  \div (Len(col) + 1)]
        colOf(k) == IF g.nodes[k].side = "left" THEN left ELSE right
    IN  [k \in 1..Len(g.nodes) |->
            LET col == colOf(k)
                i == PositionIn(col, k)
                y0 == LaidOutY0(lay(col), i)
            IN  [side |-> g.nodes[k].side, y0 |-> y0, y1 |-> y0 + hts(col)[i]]]

\* renderSankey(els.chart, rows, config): what it leaves in the container,
\* the exception it ends with, whether the loop of buildGraph ran, whether
\* buildGraph returned and whether the nodes were laid out and given the drag
\* behaviour. chart "unchanged": the container was not touched.
renderSankey(rs, sc, tc) ==
    LET b == buildGraph(rs, sc, tc)
        out(c, t, l, r, d) ==
            [chart |-> c, thrown |-> t, looped |-> l, returned |-> r, drawn |-> d]
    IN  IF sc = Unset \/ tc = Unset
        THEN out("selectToRender", "none", FALSE, FALSE, FALSE)
        ELSE IF ~d3g              \* d3g.max(links, ...) in buildGraph
        THEN out("unchanged", "TypeError", TRUE, FALSE, FALSE)
        ELSE IF b.graph.links = <<>>
        THEN out("noConnections", "none", TRUE, TRUE, FALSE)
        ELSE IF ~d3g              \* d3g.select(containerEl)
        THEN out("cleared", "TypeError", TRUE, TRUE, FALSE)
        ELSE IF ~d3g              \* if (!d3g)
        THEN out("noD3", "none", TRUE, TRUE, FALSE)
        ELSE IF ~LinksResolve(b.graph)
        THEN out("svgOnly", "Error", TRUE, TRUE, FALSE)
        ELSE out("svg", "none", TRUE, TRUE, TRUE)

\* renderAll() with the application state st
renderAll(st) ==
    IF st.rows = <<>> \/ st.sourceCol = Unset \/ st.targetCol = Unset
    THEN [chart |-> "selectColumns", thrown |-> "none",
          looped |-> FALSE, returned |-> FALSE, drawn |-> FALSE]
    ELSE renderSankey(st.rows, st.sourceCol, st.targetCol)

FreshElements(ns) == [id \in DOMAIN ns |-> <<>>]

\* What a call of renderAll() with state st and container height ch does to
\* the container, to buildGraph's variables and to the chart. "caught": the
\* call is inside the try block of tryLoadBuiltin, which goes on to the
\* placeholder for a missing dataset.
Rendered(st, ch, caught) ==
    \E o \in {renderAll(st)},
       b \in {buildGraph(st.rows, st.sourceCol, st.targetCol)},
       h \in {IF ch = 0 THEN DefaultHeight ELSE ch} :
    \E new \in {IF o.drawn THEN [height |-> h, nodes |-> Sankey(b.graph, h)]
                 ELSE NoChart} :
    LET failed == o.thrown # "none"
        content == IF caught /\ failed THEN "noDataset" ELSE o.chart
    IN  /\ chart' = IF content = "unchanged" THEN chart ELSE content
        /\ thrown' = IF caught THEN "none" ELSE o.thrown
        /\ IF o.looped
           THEN /\ sourceCol' = st.sourceCol
                /\ targetCol' = st.targetCol
                /\ rows' = st.rows
                /\ sources' = b.sources
                /\ targets' = b.targets
                /\ byLinkKey' = b.byLinkKey
                /\ graph' = IF o.returned THEN b.graph ELSE graph
                /\ bpc' = IF o.returned THEN "done" ELSE "thrown"
           ELSE UNCHANGED buildVars
        /\ IF content = "unchanged"
           THEN UNCHANGED <<height, nodes, elPeers, elHeights, elInsertIdx, stale, pending>>
           ELSE IF dragging = 0
           THEN /\ height' = new.height
                /\ nodes' = new.nodes
                /\ elPeers' = FreshElements(new.nodes)
                /\ elHeights' = FreshElements(new.nodes)
                /\ elInsertIdx' = [id \in DOMAIN new.nodes |-> Undefined]
                /\ UNCHANGED <<stale, pending>>
           ELSE /\ stale' = TRUE
                /\ pending' = new
                /\ UNCHANGED <<height, nodes, elPeers, elHeights, elInsertIdx>>

AppInit ==
    /\ state = InitialState
    /\ d3g \in BOOLEAN
    /\ chart = "initial"
    /\ thrown = "none"
    /\ timers = {}
    /\ resizeHandle = 0
    /\ quiet = DebounceDelay
    /\ fires = 0
    /\ burst = 0
    /\ stale = FALSE
    /\ pending = NoChart
    /\ boot = "fetching"

\* tryLoadBuiltin: one of the paths serves a workbook; onDataLoaded(rows)
DataLoaded(sheet, ch) ==
    /\ boot = "fetching"
    /\ boot' = "done"
    /\ LET selectable == filterSelectableColumns(inferColumns(sheet))
           def == chooseDefaultColumns(selectable)
           st == [state EXCEPT !.rows = sheet,
                               !.sourceCol = def[1],
                               !.targetCol = def[2]]
       IN  /\ state' = st
           /\ Rendered(st, ch, TRUE)
    /\ UNCHANGED <<d3g, timers, resizeHandle, quiet, fires, burst>>
    /\ UNCHANGED <<dragging, gest, gMoves, log>>

\* tryLoadBuiltin: none of the paths serves a workbook
NoDataset ==
    /\ boot = "fetching"
    /\ boot' = "done"
    /\ chart' = "noDataset"
    /\ IF dragging = 0
       THEN /\ height' = 0
            /\ nodes' = <<>>
            /\ elPeers' = <<>>
            /\ elHeights' = <<>>
            /\ elInsertIdx' = <<>>
            /\ UNCHANGED <<stale, pending>>
       ELSE /\ stale' = TRUE
            /\ pending' = NoChart
            /\ UNCHANGED <<height, nodes, elPeers, elHeights, elInsertIdx>>
    /\ UNCHANGED <<state, d3g, thrown, timers, resizeHandle, quiet, fires, burst>>
    /\ UNCHANGED <<dragging, gest, gMoves, log>>
    /\ UNCHANGED buildVars

\* the options populateSelect gave the two selects
Options == Range(filterSelectableColumns(inferColumns(state.rows)))

\* els.sourceSelect "change"
SourceChange(c, ch) ==
    /\ boot = "done"
    /\ c \in Options
    /\ state' = [state EXCEPT !.sourceCol = c]
    /\ Rendered([state EXCEPT !.sourceCol = c], ch, FALSE)
    /\ UNCHANGED <<d3g, timers, resizeHandle, quiet, fires, burst, boot>>
    /\ UNCHANGED <<dragging, gest, gMoves, log>>

\* els.targetSelect "change"
TargetChange(c, ch) ==
    /\ boot = "done"
    /\ c \in Options
    /\ state' = [state EXCEPT !.targetCol = c]
    /\ Rendered([state EXCEPT !.targetCol = c], ch, FALSE)
    /\ UNCHANGED <<d3g, timers, resizeHandle, quiet, fires, burst, boot>>
    /\ UNCHANGED <<dragging, gest, gMoves, log>>

\* els.toggleRefNums "change"
ToggleRefNums(ch) ==
    /\ state' = [state EXCEPT !.showRefNums = ~state.showRefNums]
    /\ Rendered([state EXCEPT !.showRefNums = ~state.showRefNums], ch, FALSE)
    /\ UNCHANGED <<d3g, timers, resizeHandle, quiet, fires, burst, boot>>
    /\ UNCHANGED <<dragging, gest, gMoves, log>>

KeepTimers(ts, id) == ts

\* clearTimeout(id)
ClearTimeout(ts, id) == { t \in ts : t.id # id }

\* the id setTimeout returns: one no pending timeout has
NewTimerId(ts) ==
    CHOOSE n \in 1..(Cardinality(ts) + 1) :
        /\ \A t \in ts : t.id # n
        /\ \A m \in 1..(n - 1) : \E t \in ts : t.id = m

\* window "resize":
\* clearTimeout(window.__bioVizResize); window.__bioVizResize = setTimeout(renderAll, 120)
ResizeSignal ==
    /\ LET left == ClearTimeout(timers, resizeHandle)
           id == NewTimerId(left)
       IN  /\ timers' = left \cup {[id |-> id, remaining |-> DebounceDelay]}
           /\ resizeHandle' = id
    /\ quiet' = 0
    /\ fires' = 0
    /\ burst' = IF quiet < DebounceDelay THEN Min(burst + 1, 2) ELSE 1
    /\ UNCHANGED <<state, d3g, chart, thrown, stale, pending, boot>>
    /\ UNCHANGED buildVars
    /\ UNCHANGED dragVars

\* dt milliseconds pass without an event
Tick(dt) ==
    /\ timers' = { [t EXCEPT !.remaining = Max(0, t.remaining - dt)] : t \in timers }
    /\ quiet' = Min(DebounceDelay, quiet + dt)
    /\ UNCHANGED <<state, d3g, chart, thrown, resizeHandle, fires, burst, stale, pending, boot>>
    /\ UNCHANGED buildVars
    /\ UNCHANGED dragVars

\* a timeout whose delay has passed runs renderAll
TimerFire(t, ch) ==
    /\ t \in timers
    /\ t.remaining = 0
    /\ timers' = timers \ {t}
    /\ fires' = Min(fires + 1, 2)
    /\ Rendered(state, ch, FALSE)
    /\ UNCHANGED <<state, d3g, resizeHandle, quiet, burst, boot>>
    /\ UNCHANGED <<dragging, gest, gMoves, log>>

\* drag "end" of a gesture on the chart els.chart holds
LiveEnd(d) ==
    /\ ~stale
    /\ DragEnd(d, FALSE)

\* drag "end" of a gesture whose chart a rebuild replaced: the handler packs
\* the column of the replaced graph, which nothing shows any more; the chart
\* in els.chart is the one the rebuild drew
StaleEnd(d) ==
    /\ dragging = d
    /\ stale
    /\ dragging' = 0
    /\ stale' = FALSE
    /\ height' = pending.height
    /\ nodes' = pending.nodes
    /\ elPeers' = FreshElements(pending.nodes)
    /\ elHeights' = FreshElements(pending.nodes)
    /\ elInsertIdx' = [id \in DOMAIN pending.nodes |-> Undefined]
    /\ pending' = NoChart
    /\ UNCHANGED <<gest, gMoves, log>>
    /\ UNCHANGED <<state, d3g, chart, thrown, timers, resizeHandle, quiet, fires, burst, boot>>
    /\ UNCHANGED buildVars

AppNext ==
    \/ \E sheet \in Sheets, ch \in ClientHeights : DataLoaded(sheet, ch)
    \/ NoDataset
    \/ \E c \in {"A", "B"}, ch \in ClientHeights : SourceChange(c, ch)
    \/ \E c \in {"A", "B"}, ch \in ClientHeights : TargetChange(c, ch)
    \/ \E ch \in ClientHeights : ToggleRefNums(ch)
    \/ ResizeSignal
    \/ \E dt \in Elapses : Tick(dt)
    \/ \E t \in timers, ch \in ClientHeights : TimerFire(t, ch)

----------------------------------------------------------------------------
(* Specifications *)

BuildIdle ==
    /\ sourceCol = "A"
    /\ targetCol = "B"
    /\ rows = <<>>
    /\ sources = <<>>
    /\ targets = <<>>
    /\ byLinkKey = <<>>
    /\ graph = EmptyGraph
    /\ bpc = "done"

DragIdle ==
    /\ height = 0
    /\ nodes = <<>>
    /\ elPeers = <<>>
    /\ elHeights = <<>>
    /\ elInsertIdx = <<>>
    /\ dragging = 0
    /\ gest = NoGesture
    /\ gMoves = <<>>
    /\ log = {}

AppIdle ==
    /\ state = InitialState
    /\ d3g = TRUE
    /\ chart = "initial"
    /\ thrown = "none"
    /\ timers = {}
    /\ resizeHandle = 0
    /\ quiet = DebounceDelay
    /\ fires = 0
    /\ burst = 0
    /\ stale = FALSE
    /\ pending = NoChart
    /\ boot = "done"

\* buildGraph over every row sequence
BuildSpecInit == BuildInit /\ DragIdle /\ AppIdle

BuildSpec == BuildSpecInit /\ [][BuildNext]_vars

\* gestures on a laid-out chart
DragSpecInit == DragInit /\ BuildIdle /\ AppIdle

DragSpec == DragSpecInit /\ [][DragNext]_vars

\* the same gestures, each completed gesture recorded
DragLogSpec == DragSpecInit /\ [][DragLogNext]_vars

\* the page from its load on: the dataset, the controls and the resize timer
AppSpecInit == AppInit /\ BuildIdle /\ DragIdle

\* what TimerFire does to the pending timeouts
TimerRuns == \E t \in timers : t.remaining = 0 /\ timers' = timers \ {t}

\* time passes, and the event loop runs a timeout that is due
AppSpec ==
    /\ AppSpecInit
    /\ [][AppNext]_vars
    /\ WF_vars(\E dt \in Elapses : Tick(dt))
    /\ WF_timers(TimerRuns)

\* the page once onDataLoaded has drawn the sheet of two sources and one
\* target, columns A and B, in a container 200 pixels high
GestureInit ==
    \E st \in {[InitialState EXCEPT !.rows = <<Row(TxtA, TxtA), Row(Seven, TxtA)>>,
                                    !.sourceCol = "A", !.targetCol = "B"]} :
    \E b \in {buildGraph(st.rows, st.sourceCol, st.targetCol)} :
    \E ns \in {Sankey(b.graph, 200)} :
        /\ state = st
        /\ d3g = TRUE
        /\ chart = "svg"
        /\ thrown = "none"
        /\ timers = {}
        /\ resizeHandle = 0
        /\ quiet = DebounceDelay
        /\ fires = 0
        /\ burst = 0
        /\ stale = FALSE
        /\ pending = NoChart
        /\ boot = "done"
        /\ sourceCol = st.sourceCol
        /\ targetCol = st.targetCol
        /\ rows = st.rows
        /\ sources = b.sources
        /\ targets = b.targets
        /\ byLinkKey = b.byLinkKey
        /\ graph = b.graph
        /\ bpc = "done"
        /\ height = 200
        /\ nodes = ns
        /\ elPeers = FreshElements(ns)
        /\ elHeights = FreshElements(ns)
        /\ elInsertIdx = [id \in DOMAIN ns |-> Undefined]
        /\ dragging = 0
        /\ gest = NoGesture
        /\ gMoves = <<>>
        /\ log = {}

GestureNext ==
    \/ \E d \in NodeIds : DragStart(d)
    \/ \E d \in NodeIds, y \in PointerYs : DragMove(d, y, FALSE)
    \/ \E d \in NodeIds : LiveEnd(d)
    \/ \E d \in NodeIds : StaleEnd(d)
    \/ ResizeSignal
    \/ \E dt \in Elapses : Tick(dt)
    \/ \E t \in timers, ch \in ClientHeights : TimerFire(t, ch)

\* gestures on the chart of the loaded page while the window is resized
GestureSpec == GestureInit /\ [][GestureNext]_vars

\*-- claims: graph builder ---------------------------------------------------

\* trim(string(v)) is empty, read off the cell itself
IsBlank(v) ==
    \/ v.kind = "null"
    \/ v.kind = "str" /\ \A i \in 1..Len(v.s) : v.s[i] \in Whitespace

RowExcluded(row) ==
    IsBlank(Field(row, sourceCol)) \/ IsBlank(Field(row, targetCol))

IncludedIds == { i \in 1..Len(rows) : ~RowExcluded(rows[i]) }

\* the ordered pair (s, t) of trimmed values of row i
PairOf(i) == <<getVal(rows[i], sourceCol), getVal(rows[i], targetCol)>>

IncludedPairs == { PairOf(i) : i \in IncludedIds }

RefIdsOfEntry(k) == byLinkKey[k].val.refIds

AllRefIds == UNION { Range(RefIdsOfEntry(k)) : k \in 1..Len(byLinkKey) }

\* C1 (row exclusion): a row whose source or target cell trims to the empty
\* string never has its 1-based position in any link's referenceIds, and the
\* loop iteration that visits it creates no node and no link entry.
C1_RowExclusion ==
    /\ [](\A i \in 1..Len(rows) : RowExcluded(rows[i]) => i \notin AllRefIds)
    /\ [][(Len(rows') = Len(rows) + 1 /\ RowExcluded(rows'[Len(rows')]))
            => UNCHANGED <<sources, targets, byLinkKey>>]_vars

C1_Witness ==
    /\ bpc = "done"
    /\ graph.links # <<>>
    /\ \E i, j \in 1..Len(rows) :
          /\ i < j
          /\ RowExcluded(rows[i])
          /\ Field(rows[i], sourceCol) = Blank \/ Field(rows[i], targetCol) = Blank
          /\ ~RowExcluded(rows[j])

\* the pairs (s, t) of the rows that link k aggregates
PairsOfLink(k) == { PairOf(i) : i \in Range(RefIdsOfEntry(k)) }

\* C2 (link uniqueness): the links are in one-to-one correspondence with the
\* distinct ordered pairs (s, t) of trimmed values of the included rows: every
\* link aggregates exactly one pair, every pair has exactly one link, and that
\* link joins the pair's two values.
C2_LinkUniqueness ==
    bpc = "done" =>
        /\ Len(graph.links) = Cardinality(IncludedPairs)
        /\ \A k \in 1..Len(graph.links) : Cardinality(PairsOfLink(k)) = 1
        /\ \A p \in IncludedPairs :
              Cardinality({ k \in 1..Len(graph.links) : p \in PairsOfLink(k) }) = 1

\* the value a link's endpoint id stands for: the id without its role prefix
IdValue(id) == SubSeq(id, 3, Len(id))

\* byLinkKey.get(`${source.name}|||${target.name}`)?.refIds || []
RefIdsOfPair(s, t) ==
    IF MapHas(byLinkKey, LinkKey(s, t))
    THEN MapGet(byLinkKey, LinkKey(s, t)).refIds
    ELSE <<>>

\* C3 (aggregation invariant): every emitted link's value equals the length
\* of the referenceIds list recorded for the link's (source value, target
\* value) pair, and is at least 1.
C3_Aggregation ==
    bpc = "done" =>
        \A k \in 1..Len(graph.links) :
            LET l == graph.links[k]
            IN  /\ l.value >= 1
                /\ l.value = Len(RefIdsOfPair(IdValue(l.source), IdValue(l.target)))

StrictlyIncreasing(q) == \A i, j \in 1..Len(q) : i < j => q[i] < q[j]

\* C4 (reference numbering): the union of all links' referenceIds is exactly
\* the set of 1-based positions of the included rows, and each link's list is
\* strictly increasing (row-encounter order).
C4_RefNumbering ==
    /\ AllRefIds = IncludedIds
    /\ \A k \in 1..Len(byLinkKey) :
          /\ StrictlyIncreasing(RefIdsOfEntry(k))
          /\ byLinkKey[k].key = LinkKey(PairOf(RefIdsOfEntry(k)[1])[1],
                                        PairOf(RefIdsOfEntry(k)[1])[2])

C4_Witness ==
    /\ bpc = "done"
    /\ \E k \in 1..Len(byLinkKey) : Len(RefIdsOfEntry(k)) >= 2
    /\ \E i \in 1..Len(rows) : RowExcluded(rows[i]) /\ i < Len(rows)
    /\ ~RowExcluded(rows[Len(rows)])

NodesWith(side, name) ==
    { k \in 1..Len(graph.nodes) :
        graph.nodes[k].side = side /\ graph.nodes[k].name = name }

\* C5 (node identity): exactly one node per distinct (side, value) seen in an
\* included row and no other node; node ids are pairwise distinct; a value on
\* both sides yields two distinct nodes.
C5_NodeIdentity ==
    bpc = "done" =>
        /\ \A p \in IncludedPairs :
              /\ Cardinality(NodesWith("left", p[1])) = 1
              /\ Cardinality(NodesWith("right", p[2])) = 1
        /\ \A k \in 1..Len(graph.nodes) :
              \E p \in IncludedPairs :
                  \/ graph.nodes[k].side = "left" /\ graph.nodes[k].name = p[1]
                  \/ graph.nodes[k].side = "right" /\ graph.nodes[k].name = p[2]
        /\ \A j, k \in 1..Len(graph.nodes) :
              j # k => graph.nodes[j].id # graph.nodes[k].id

C5_Witness ==
    /\ bpc = "done"
    /\ \E p, q \in IncludedPairs : p[1] = q[2]
    /\ \E i, j \in IncludedIds : i # j /\ PairOf(i)[1] = PairOf(j)[1]
    /\ Len(graph.nodes) >= 3

\* C6 (bipartite well-formedness): every link's source is the id of a left
\* node of the graph and its target the id of a right node of the graph,
\* namely the nodes of the pair (s, t) of the rows it aggregates.
C6_Bipartite ==
    bpc = "done" =>
        \A k \in 1..Len(graph.links) :
            LET l == graph.links[k]
            IN  /\ \E n \in Range(graph.nodes) : n.id = l.source /\ n.side = "left"
                /\ \E n \in Range(graph.nodes) : n.id = l.target /\ n.side = "right"
                /\ \A i \in Range(RefIdsOfEntry(k)) :
                      \E ns, nt \in Range(graph.nodes) :
                          /\ ns.side = "left" /\ ns.name = PairOf(i)[1]
                          /\ nt.side = "right" /\ nt.name = PairOf(i)[2]
                          /\ l.source = ns.id /\ l.target = nt.id

\* the distinct elements of q in order of first occurrence
RECURSIVE FirstEncounter(_)
FirstEncounter(q) ==
    IF q = <<>> THEN <<>>
    ELSE LET init == FirstEncounter(SubSeq(q, 1, Len(q) - 1))
             x == q[Len(q)]
         IN  IF x \in Range(init) THEN init ELSE Append(init, x)

\* the included rows' positions in ascending order
RECURSIVE IncludedSeq(_)
IncludedSeq(n) ==
    IF n = 0 THEN <<>>
    ELSE IF RowExcluded(rows[n]) THEN IncludedSeq(n - 1)
         ELSE Append(IncludedSeq(n - 1), n)

SourcesInOrder ==
    LET inc == IncludedSeq(Len(rows))
    IN  FirstEncounter([k \in 1..Len(inc) |-> PairOf(inc[k])[1]])

TargetsInOrder ==
    LET inc == IncludedSeq(Len(rows))
    IN  FirstEncounter([k \in 1..Len(inc) |-> PairOf(inc[k])[2]])

\* C7 (output ordering): the node sequence is the left nodes in order of
\* first encounter followed by the right nodes in order of first encounter;
\* the link sequence has one link per aggregated entry, in order of the first
\* row that contributes to it.
C7_OutputOrdering ==
    bpc = "done" =>
        /\ [k \in 1..Len(graph.nodes) |-> <<graph.nodes[k].side, graph.nodes[k].name>>]
             = [k \in 1..Len(SourcesInOrder) |-> <<"left", SourcesInOrder[k]>>]
               \o [k \in 1..Len(TargetsInOrder) |-> <<"right", TargetsInOrder[k]>>]
        /\ Len(graph.links) = Len(byLinkKey)
        /\ \A j, k \in 1..Len(graph.links) :
              /\ graph.links[k].value = Len(RefIdsOfEntry(k))
              /\ j < k => RefIdsOfEntry(j)[1] < RefIdsOfEntry(k)[1]

C7_Witness ==
    /\ bpc = "done"
    /\ Len(SourcesInOrder) >= 2
    /\ Len(TargetsInOrder) >= 2
    /\ Len(graph.links) >= 2
    /\ \E k \in 1..Len(byLinkKey) : Len(RefIdsOfEntry(k)) >= 2
    /\ SourcesInOrder[1] # TargetsInOrder[1]

\*-- claims: drag gestures ---------------------------------------------------

ColumnOf(d) == { n \in NodeIds : nodes[n].side = nodes[d].side }

SiblingsOf(d) == ColumnOf(d) \ {d}

Disjoint(a, b) == a.y1 < b.y0 \/ b.y1 < a.y0

NoOverlapIn(col) == \A a, b \in col : a # b => Disjoint(nodes[a], nodes[b])

ColumnBottom == height - ColumnMargin

RECURSIVE SumFloored(_, _)
SumFloored(layout, ids) ==
    IF ids = {} THEN 0
    ELSE LET n == CHOOSE x \in ids : TRUE
         IN  FlooredHeight(layout[n]) + SumFloored(layout, ids \ {n})

\* what the column of d needs when packed: the heights captured at Start
\* (floored at 8) plus the padding between neighbours
PackedTotal(d) ==
    SumFloored(gest.start, ColumnOf(d)) + NodePad * (Cardinality(ColumnOf(d)) - 1)

GestureEnded == dragging = 0 /\ gest.node # 0

\* C8 (packing non-overlap and bounds), as claimed: after Start, Move*, End on
\* d, no two nodes of d's column overlap and every node of the column lies
\* between the column top (20) and the column bottom (height - 20).
C8_PackingAsClaimed ==
    GestureEnded =>
        /\ NoOverlapIn(ColumnOf(gest.node))
        /\ \A n \in ColumnOf(gest.node) :
              nodes[n].y0 >= ColumnTop /\ nodes[n].y1 <= ColumnBottom

\* C8, amended: after Start, Move*, End on d, no two nodes of d's column
\* overlap and every node starts at or below the column top; every node ends
\* at or above the column bottom whenever the packed column (heights floored
\* at 8, padding 14) is no taller than the extent height - 40.
C8_Packing ==
    GestureEnded =>
        /\ NoOverlapIn(ColumnOf(gest.node))
        /\ \A n \in ColumnOf(gest.node) : nodes[n].y0 >= ColumnTop
        /\ PackedTotal(gest.node) <= ColumnBottom - ColumnTop
             => \A n \in ColumnOf(gest.node) : nodes[n].y1 <= ColumnBottom

C8_Witness ==
    /\ GestureEnded
    /\ gest.moved
    /\ nodes[gest.node].side = "left"
    /\ PackedTotal(gest.node) <= ColumnBottom - ColumnTop
    /\ \E p \in SiblingsOf(gest.node) :
          /\ gest.start[gest.node].y0 < gest.start[p].y0
          /\ nodes[gest.node].y0 > nodes[p].y0

\* C9 (drag determinism): two completed gestures on the same node with the
\* same Start snapshot and the same sequence of Move pointer values (the
\* empty sequence included) end in the same order and the same extents.
C9_DragDeterminism ==
    \A r1, r2 \in log :
        (r1.node = r2.node /\ r1.start = r2.start /\ r1.moves = r2.moves)
            => r1.end = r2.end

\* C10 (drag to the end): when the last Move put the dragged node's candidate
\* center above the center of every sibling of the Start snapshot, the
\* computed insertIndex is the number of siblings, and after End the dragged
\* node is the bottom-most node of its column.
C10_DragToEnd ==
    LET d == gest.node
    IN  (/\ d # 0
         /\ gest.moved
         /\ \A p \in SiblingsOf(d) :
               gest.center2 > gest.start[p].y0 + gest.start[p].y1)
        => /\ elInsertIdx[d] = Cardinality(SiblingsOf(d))
           /\ dragging = 0 => \A p \in SiblingsOf(d) : nodes[p].y0 < nodes[d].y0

\* a step that is a Move of the gesture in progress
IsMoveStep == dragging # 0 /\ dragging' = dragging /\ gest'.moved

\* C11 (Move idempotence): within a gesture, a Move with the pointer Y of the
\* Move just before it changes nothing: the insertIndex and the extents of
\* the dragged node and of every sibling stay as the first Move left them.
C11_MoveIdempotence ==
    [][(IsMoveStep /\ gest.moved /\ gest'.y = gest.y)
          => (nodes' = nodes /\ elInsertIdx' = elInsertIdx)]_vars

\* the siblings of d that the Start snapshot has above sibling p
StartAbove(d, p) ==
    { q \in SiblingsOf(d) :
        \/ gest.start[q].y0 < gest.start[p].y0
        \/ gest.start[q].y0 = gest.start[p].y0 /\ q < p }

\* the height captured at Start
StartHeight(n) == FlooredHeight(gest.start[n])

\* what a set of nodes takes when stacked: the captured heights, each with
\* the padding below it
Stacked(ids) == SumFloored(gest.start, ids) + NodePad * Cardinality(ids)

\* C16 (Move placement): after a Move with pointer Y = p on node d of height
\* h (floored at 8), d.y0 is p clamped to [top, bottom - h] and d.y1 is
\* d.y0 + h, inside the column's bounds; every sibling lies where stacking
\* from the column top in Start-snapshot order with padding 14 puts it,
\* h + 14 lower for the siblings from insertIndex on.
C16_MovePlacement ==
    (dragging # 0 /\ gest.moved) =>
        LET d == dragging
            h == StartHeight(d)
            y0 == Max(ColumnTop, Min(ColumnBottom - h, gest.y))
        IN  /\ nodes[d].y0 = y0
            /\ nodes[d].y1 = y0 + h
            /\ nodes[d].y0 >= ColumnTop
            /\ nodes[d].y1 <= ColumnBottom
            /\ \A p \in SiblingsOf(d) :
                  LET above == StartAbove(d, p)
                      gap == IF Cardinality(above) >= elInsertIdx[d]
                             THEN h + NodePad ELSE 0
                  IN  /\ nodes[p].y0 = ColumnTop + Stacked(above) + gap
                      /\ nodes[p].y1 = nodes[p].y0 + StartHeight(p)

\* a Move that leaves the gap between the two siblings of d
C16_Witness ==
    /\ dragging # 0
    /\ gest.moved
    /\ Cardinality(SiblingsOf(dragging)) = 2
    /\ elInsertIdx[dragging] = 1
    /\ nodes[dragging].y0 = gest.y
    /\ \E p \in SiblingsOf(dragging) : nodes[p].y0 # gest.start[p].y0

\* the place of node n in the column of d after End: the siblings in Start
\* order, d at idx
EndRank(d, idx, n) ==
    IF n = d THEN idx
    ELSE IF Cardinality(StartAbove(d, n)) < idx
         THEN Cardinality(StartAbove(d, n))
         ELSE Cardinality(StartAbove(d, n)) + 1

\* C17 (End snap): after the End of a gesture with at least one Move, the
\* column is the Start-snapshot sibling order with d inserted at the
\* insertIndex of the last Move; the first node starts at the column top,
\* every other node 14 below the end of the node before it, and every node
\* has the height captured at Start.
C17_EndSnap ==
    (GestureEnded /\ gest.moved) =>
        LET d == gest.node
            idx == Min(elInsertIdx[d], Cardinality(SiblingsOf(d)))
            before(n) == { m \in ColumnOf(d) : EndRank(d, idx, m) < EndRank(d, idx, n) }
        IN  \A n \in ColumnOf(d) :
                /\ nodes[n].y0 = ColumnTop + Stacked(before(n))
                /\ nodes[n].y1 = nodes[n].y0 + StartHeight(n)

\* d went from the top of a column of three to its middle
C17_Witness ==
    /\ GestureEnded
    /\ gest.moved
    /\ Cardinality(SiblingsOf(gest.node)) = 2
    /\ elInsertIdx[gest.node] = 1
    /\ \A p \in SiblingsOf(gest.node) : gest.start[gest.node].y0 < gest.start[p].y0
    /\ \E p \in SiblingsOf(gest.node) : nodes[p].y0 < nodes[gest.node].y0

\* C18 (move-less gesture): a Start followed at once by End leaves the
\* top-to-bottom order of the column as the Start snapshot had it.
C18_MovelessNoOp ==
    (GestureEnded /\ ~gest.moved) =>
        \A a, b \in ColumnOf(gest.node) :
            gest.start[a].y0 < gest.start[b].y0 => nodes[a].y0 < nodes[b].y0

\*-- claims: the page --------------------------------------------------------

\* no row of st.rows has both trimmed values non-empty
NoRowIncluded(st) ==
    \A i \in 1..Len(st.rows) :
        \/ IsBlank(Field(st.rows[i], st.sourceCol))
        \/ IsBlank(Field(st.rows[i], st.targetCol))

SelectionUnset(st) == st.sourceCol = Unset \/ st.targetCol = Unset

EmptyState(st) == SelectionUnset(st) \/ st.rows = <<>> \/ NoRowIncluded(st)

Placeholders == {"selectColumns", "selectToRender", "noConnections", "noDataset"}

\* every handler that changes the state or the container ends with renderAll:
\* once tryLoadBuiltin has returned, the latest render request was made with
\* the current state
RenderRequested == boot = "done"

\* C12 (empty-state handling): when the selection is unset, the rows are
\* empty or no row has both values, build yields zero links (zero nodes too
\* for empty rows), the render request leaves a placeholder in the container,
\* lays out nothing, binds no drag behaviour and raises no exception.
C12_EmptyState ==
    (RenderRequested /\ EmptyState(state)) =>
        LET g == buildGraph(state.rows, state.sourceCol, state.targetCol).graph
        IN  /\ g.links = <<>>
            /\ state.rows = <<>> => g.nodes = <<>>
            /\ chart \in Placeholders
            /\ nodes = <<>>
            /\ thrown = "none"

\* C13 (backend-unavailable signalling): when d3 could not be retrieved, a
\* render request with both columns selected and at least one included row
\* ends with the "D3 not available" placeholder in the container and without
\* an exception.
C13_BackendUnavailable ==
    (RenderRequested /\ ~d3g /\ ~EmptyState(state)) =>
        /\ chart = "noD3"
        /\ thrown = "none"

\* C14 (resize coalescing): at most one resize timer is pending at any time
\* and at most one relayout follows the latest signal; each resize signal
\* leaves exactly the timer it arms, with the full delay; the timer runs
\* renderAll only once the delay has passed without a signal; and once it has
\* passed with the timer pending, the relayout happens unless a new signal
\* comes first.
C14_ResizeCoalescing ==
    /\ [](Cardinality(timers) <= 1 /\ fires <= 1)
    /\ [][ResizeSignal =>
            timers' = {[id |-> resizeHandle', remaining |-> DebounceDelay]}]_vars
    /\ [][fires' > fires => quiet = DebounceDelay]_vars
    /\ (timers # {} /\ quiet = DebounceDelay) ~> (fires = 1 \/ quiet < DebounceDelay)

\* a burst of at least two signals, then the one relayout
C14_Witness ==
    /\ burst = 2
    /\ fires = 1
    /\ timers = {}
    /\ quiet = DebounceDelay

\* C15 (gesture/rebuild mutual exclusion): between the Start and the End of
\* a gesture no rebuild replaces the chart: the graph the Moves and the End
\* of the gesture change is the graph the container shows.
C15_MutualExclusion == dragging # 0 => ~stale

====
